---- MODULE Spec2Model ----
(***************************************************************************)
(* Model of the two command-line programs of the repository:               *)
(*   ingest.py           text extraction into extracted_data.json          *)
(*   query_interface.py  question -> LLM -> Cypher -> table loop           *)
(* Text is a sequence of one-character strings; "" is <<>>.                *)
(***************************************************************************)
EXTENDS Integers, Sequences, FiniteSets, TLC

\* ------------------------------------------------------------------ bounds
MaxFiles == 1
MaxUrlLines == 2
MaxQuestions == 2
MaxRows == 1

\* ------------------------------------------------------- generic helpers
RECURSIVE SeqsUpTo(_, _)
SeqsUpTo(S, n) ==
  IF n = 0 THEN {<<>>}
  ELSE LET shorter == SeqsUpTo(S, n - 1)
       IN shorter \cup {Append(s, x) : s \in {t \in shorter : Len(t) = n - 1}, x \in S}

Range(s) == {s[i] : i \in 1..Len(s)}

Return(v) == [kind |-> "return", value |-> v, exc |-> "none"]

Raise(e) == [kind |-> "raise", value |-> <<>>, exc |-> e]

\* ------------------------------------------------- python string methods
Whitespace == {" ", "\n"}

RECURSIVE lstrip(_)
lstrip(s) == IF s # <<>> /\ Head(s) \in Whitespace THEN lstrip(Tail(s)) ELSE s

RECURSIVE rstrip(_)
rstrip(s) ==
  IF s # <<>> /\ s[Len(s)] \in Whitespace THEN rstrip(SubSeq(s, 1, Len(s) - 1)) ELSE s

strip(s) == rstrip(lstrip(s))

startswith(s, c) == s # <<>> /\ s[1] = c

RECURSIVE join(_, _)
join(sep, parts) ==
  IF parts = <<>> THEN <<>>
  ELSE IF Len(parts) = 1 THEN parts[1]
  ELSE parts[1] \o sep \o join(sep, Tail(parts))

Truthy(s) == s # <<>>

\* ------------------------------------------------------------- ingest.py
\* What the parsing library, the file system or the network does on a call:
\* the texts of the pages of a PDF or of the paragraphs of a DOCX, ...
PartLists == {<<>>, <<<<>>>>, <<<<"t">>>>, <<<<>>, <<"t">>>>, <<<<"t">>, <<"t">>>>}

DocOutcomes == [raises : BOOLEAN, parts : PartLists]

TxtOutcomes == [raises : BOOLEAN, text : {<<>>, <<"t">>}]

HtmlNodes == [tag : {"script", "style", "p"}, text : {<<"t">>, <<" ">>, <<" ", "t">>}]

UrlOutcomes ==
  [get : {"RequestException", "response"}, status : {200, 404, 500},
   hasBody : BOOLEAN, nodes : {<<>>} \cup {<<n>> : n \in HtmlNodes}]

extract_from_pdf(lib) ==
  IF lib.raises THEN Return(<<>>)
  ELSE Return(join(<<"\n">>, SelectSeq(lib.parts, Truthy)))

extract_from_docx(lib) ==
  IF lib.raises THEN Return(<<>>)
  ELSE Return(join(<<"\n">>, SelectSeq(lib.parts, Truthy)))

extract_from_txt(fs) ==
  IF fs.raises THEN Return(<<>>) ELSE Return(fs.text)

raise_for_status(status) == status >= 400 /\ status < 600

decompose(nodes) == SelectSeq(nodes, LAMBDA n : n.tag \notin {"script", "style"})

RECURSIVE StrippedTexts(_)
StrippedTexts(nodes) ==
  IF nodes = <<>> THEN <<>>
  ELSE LET t == strip(Head(nodes).text)
       IN (IF t = <<>> THEN <<>> ELSE <<t>>) \o StrippedTexts(Tail(nodes))

get_text(nodes) == join(<<"\n">>, StrippedTexts(nodes))

\* the fetch failed, the status was an error, or the page has no <body>
UrlFailure(net) ==
  net.get = "RequestException" \/ net.status \notin 200..399 \/ ~net.hasBody

extract_from_url(net) ==
  IF net.get = "RequestException" THEN Return(<<>>)
  ELSE IF raise_for_status(net.status) THEN Return(<<>>)
  ELSE IF ~net.hasBody THEN Raise("AttributeError")
  ELSE Return(get_text(decompose(net.nodes)))

FileNames ==
  {<<"a", ".", "txt">>, <<"b", ".", "pdf">>, <<"c", ".", "docx">>,
   <<"d", ".", "md">>, <<"e", ".", "PDF">>, <<".", "txt">>}

\* names iterdir() has not yielded yet
NextEntries(seen) == FileNames \ Range(seen)

RECURSIVE LastDot(_, _)
LastDot(name, i) ==
  IF i = 0 THEN 0 ELSE IF name[i] = "." THEN i ELSE LastDot(name, i - 1)

suffix(name) ==
  LET i == LastDot(name, Len(name))
  IN IF 1 < i /\ i < Len(name) THEN SubSeq(name, i, Len(name)) ELSE <<>>

\* lines `for line in f` can yield
Lines ==
  {<<"\n">>, <<" ", " ">>, <<"#", "\n">>, <<" ", "#">>, <<" ", "u", "\n">>, <<"u", "#">>}

VARIABLES
  pc,            \* position in main()
  dir_entries,   \* DOCUMENTS_DIR: is_dir() and the entries iterdir() yielded
  url_lines,     \* URLS_FILE: is_file() and the lines read from it
  file_idx,      \* directory entries consumed by the for loop
  line_idx,      \* URL lines consumed by the for loop
  all_data,      \* the accumulator
  origins,       \* for each record of all_data, the input item it came from
  calls,         \* extractor calls made so far, in order, with their results
  output_file,   \* extracted_data.json: <<>> if never written, else <<data>>
  write_attempts,\* times open(OUTPUT_FILE, 'w') was attempted
  write_error,   \* TRUE once the IOError handler ran
  uncaught       \* exception that left main(), or "none"

ivars == <<pc, dir_entries, url_lines, file_idx, line_idx, all_data, origins,
           calls, output_file, write_attempts, write_error, uncaught>>

VARIABLES
  qpc,              \* position in the __main__ block
  driver,           \* "none", "open" or "closed"
  db_connector,     \* 'db_connector' in locals()
  asked,            \* questions read so far
  question,         \* the latest input
  api,              \* what the API did on the latest translate call
  translated,       \* how the latest translate call ended
  db,               \* what the database did on the latest run_query call
  results,          \* what the latest run_query call returned
  rendered,         \* what the current iteration rendered
  translate_calls,  \* translate calls for the current question
  run_query_calls,  \* run_query calls for the current question
  pending,          \* exception leaving the try block, or "none"
  raised_in         \* the step that raised it

qvars == <<qpc, driver, db_connector, asked, question, api, translated, db,
           results, rendered, translate_calls, run_query_calls, pending, raised_in>>

IngestInit ==
  /\ pc = "documents"
  /\ dir_entries \in [is_dir : BOOLEAN, entries : {<<>>}]
  /\ url_lines \in [is_file : BOOLEAN, lines : {<<>>}]
  /\ file_idx = 0
  /\ line_idx = 0
  /\ all_data = <<>>
  /\ origins = <<>>
  /\ calls = <<>>
  /\ output_file = <<>>
  /\ write_attempts = 0
  /\ write_error = FALSE
  /\ uncaught = "none"

\* the if/elif chain on file_path.suffix
Dispatch(name) ==
  IF suffix(name) = <<".", "pdf">> THEN "extract_from_pdf"
  ELSE IF suffix(name) = <<".", "docx">> THEN "extract_from_docx"
  ELSE IF suffix(name) = <<".", "txt">> THEN "extract_from_txt"
  ELSE "none"

ShouldAppend_Always(content) == TRUE

\* `if content:` before all_data.append
ShouldAppend(content) == Truthy(content)

IsTarget_NoEmptyTest(url) == ~startswith(url, "#")

\* `if url and not url.startswith('#')`
IsTarget(url) == Truthy(url) /\ ~startswith(url, "#")

Call(fn, arg, item, failure, result) ==
  [fn |-> fn, arg |-> arg, item |-> item, failure |-> failure, result |-> result]

\* the part of a loop body after the extractor returned or raised
AfterExtract(fn, arg, item, failure, result) ==
  /\ calls' = Append(calls, Call(fn, arg, item, failure, result))
  /\ IF result.kind = "raise"
       THEN /\ uncaught' = result.exc
            /\ pc' = "aborted"
            /\ UNCHANGED <<all_data, origins>>
       ELSE /\ UNCHANGED <<uncaught, pc>>
            /\ IF ShouldAppend(result.value)
                 THEN /\ all_data' = Append(all_data, [source |-> arg, content |-> result.value])
                      /\ origins' = Append(origins, item)
                 ELSE UNCHANGED <<all_data, origins>>

DocumentsDir ==
  /\ pc = "documents"
  /\ pc' = IF dir_entries.is_dir THEN "files" ELSE "urls"
  /\ UNCHANGED <<dir_entries, url_lines, file_idx, line_idx, all_data, origins,
                 calls, output_file, write_attempts, write_error, uncaught>>
  /\ UNCHANGED qvars

\* one iteration of `for file_path in DOCUMENTS_DIR.iterdir()`
ProcessFile ==
  /\ pc = "files"
  /\ file_idx < MaxFiles
  /\ file_idx' = file_idx + 1
  /\ \E name \in NextEntries(dir_entries.entries) :
       /\ dir_entries' = [dir_entries EXCEPT !.entries = Append(@, name)]
       /\ LET item == <<"file", file_idx + 1>>
              fn == Dispatch(name)
          IN CASE fn = "extract_from_pdf" ->
                    \E lib \in DocOutcomes :
                      AfterExtract(fn, name, item, lib.raises, extract_from_pdf(lib))
               [] fn = "extract_from_docx" ->
                    \E lib \in DocOutcomes :
                      AfterExtract(fn, name, item, lib.raises, extract_from_docx(lib))
               [] fn = "extract_from_txt" ->
                    \E fs \in TxtOutcomes :
                      AfterExtract(fn, name, item, fs.raises, extract_from_txt(fs))
               [] OTHER ->
                    UNCHANGED <<all_data, origins, calls, uncaught, pc>>
  /\ UNCHANGED <<url_lines, line_idx, output_file, write_attempts, write_error>>
  /\ UNCHANGED qvars

\* iterdir() is exhausted
FilesDone ==
  /\ pc = "files"
  /\ pc' = "urls"
  /\ UNCHANGED <<dir_entries, url_lines, file_idx, line_idx, all_data, origins,
                 calls, output_file, write_attempts, write_error, uncaught>>
  /\ UNCHANGED qvars

UrlsFile ==
  /\ pc = "urls"
  /\ pc' = IF url_lines.is_file THEN "lines" ELSE "output"
  /\ UNCHANGED <<dir_entries, url_lines, file_idx, line_idx, all_data, origins,
                 calls, output_file, write_attempts, write_error, uncaught>>
  /\ UNCHANGED qvars

\* one iteration of `for line in f`
ProcessLine ==
  /\ pc = "lines"
  /\ line_idx < MaxUrlLines
  /\ line_idx' = line_idx + 1
  /\ \E line \in Lines :
       /\ url_lines' = [url_lines EXCEPT !.lines = Append(@, line)]
       /\ LET url == strip(line)
              item == <<"line", line_idx + 1>>
          IN IF IsTarget(url)
               THEN \E net \in UrlOutcomes :
                      AfterExtract("extract_from_url", url, item, UrlFailure(net),
                                   extract_from_url(net))
               ELSE UNCHANGED <<all_data, origins, calls, uncaught, pc>>
  /\ UNCHANGED <<dir_entries, file_idx, output_file, write_attempts, write_error>>
  /\ UNCHANGED qvars

\* the end of URLS_FILE is reached
LinesDone ==
  /\ pc = "lines"
  /\ pc' = "output"
  /\ UNCHANGED <<dir_entries, url_lines, file_idx, line_idx, all_data, origins,
                 calls, output_file, write_attempts, write_error, uncaught>>
  /\ UNCHANGED qvars

\* `if not all_data: ... return`, else the guarded open/json.dump
WriteOutput ==
  /\ pc = "output"
  /\ pc' = "done"
  /\ IF ~Truthy(all_data)
       THEN UNCHANGED <<output_file, write_attempts, write_error>>
       ELSE /\ write_attempts' = write_attempts + 1
            /\ \E io \in {"ok", "IOError"} :
                 IF io = "ok"
                   THEN output_file' = <<all_data>> /\ UNCHANGED write_error
                   ELSE write_error' = TRUE /\ UNCHANGED output_file
  /\ UNCHANGED <<dir_entries, url_lines, file_idx, line_idx, all_data, origins,
                 calls, uncaught>>
  /\ UNCHANGED qvars

\* ---------------------------------------------------- query_interface.py
\* Python values a JSON document can decode to, as far as the loop looks at
\* them: elems is the keys of a dict, the items of a list, the substrings of a
\* str; len is the number of keys or items, 0/1 for an empty/non-empty str,
\* the value of an int.
Fields == {"query", "explanation"}

None == [kind |-> "none", elems |-> {}, len |-> 0]

Dicts == {[kind |-> "dict", elems |-> e, len |-> Cardinality(e)] : e \in SUBSET Fields}

Lists == {[kind |-> "list", elems |-> e, len |-> Cardinality(e)] : e \in SUBSET Fields}

Strs ==
  {[kind |-> "str", elems |-> {}, len |-> 0]}
    \cup {[kind |-> "str", elems |-> e, len |-> 1] : e \in SUBSET Fields}

Ints == {[kind |-> "int", elems |-> {}, len |-> n] : n \in {0, 1}}

JsonValues == {None} \cup Dicts \cup Lists \cup Strs \cup Ints

PyTruthy(v) == v.kind # "none" /\ v.len # 0

\* subscripts of response_json['candidates'][0]['content']['parts'][0]['text']
Path == <<"key", "index", "key", "key", "index", "key">>

\* what a subscript raises on a container that does not hold it
Subscript(sub, container) ==
  CASE container = "null" -> "TypeError"
    [] sub = "key" /\ container = "dict" -> "KeyError"
    [] sub = "key" /\ container = "list" -> "TypeError"
    [] sub = "index" /\ container = "dict" -> "KeyError"
    [] sub = "index" /\ container = "list" -> "IndexError"

\* What the HTTP API does on one POST. fail_at = 0: the whole path is there;
\* fail_at = i: subscript i is applied to `container`, which does not hold it.
NoApi ==
  [post |-> "none", status |-> 0, json |-> FALSE, fail_at |-> 0,
   container |-> "dict", text |-> "str", value |-> None]

ApiOutcomes ==
  {[NoApi EXCEPT !.post = "RequestException"]}
    \cup {[NoApi EXCEPT !.post = "response", !.status = st] : st \in {404, 500}}
    \cup {[NoApi EXCEPT !.post = "response", !.status = 200]}
    \cup {[NoApi EXCEPT !.post = "response", !.status = 200, !.json = TRUE,
                        !.fail_at = i, !.container = c] :
            i \in 1..Len(Path), c \in {"dict", "list", "null"}}
    \cup {[NoApi EXCEPT !.post = "response", !.status = 200, !.json = TRUE, !.text = t] :
            t \in {"not a str", "invalid json"}}
    \cup {[NoApi EXCEPT !.post = "response", !.status = 200, !.json = TRUE, !.value = v] :
            v \in JsonValues}

Returned(v) == [kind |-> "return", value |-> v, exc |-> "none"]

Raised(e) == [kind |-> "raise", value |-> None, exc |-> e]

\* `except requests.RequestException`: prints response.text
RequestHandler(response_bound) ==
  IF response_bound THEN Returned(None) ELSE Raised("UnboundLocalError")

\* `except (KeyError, IndexError, json.JSONDecodeError)`, response_json bound
ParseHandler_NoIndexError(e) ==
  IF e \in {"KeyError", "JSONDecodeError"} THEN Returned(None) ELSE Raised(e)

ParseHandler(e) ==
  IF e \in {"KeyError", "IndexError", "JSONDecodeError"} THEN Returned(None) ELSE Raised(e)

\* the try block of GeminiQueryTranslator.translate and its handlers
translate(r) ==
  IF r.post = "RequestException" THEN RequestHandler(FALSE)
  ELSE IF raise_for_status(r.status) THEN RequestHandler(TRUE)
  ELSE IF ~r.json THEN RequestHandler(TRUE)
  ELSE IF r.fail_at # 0 THEN ParseHandler(Subscript(Path[r.fail_at], r.container))
  ELSE IF r.text = "not a str" THEN ParseHandler("TypeError")
  ELSE IF r.text = "invalid json" THEN ParseHandler("JSONDecodeError")
  ELSE Returned(r.value)

LoopDecision_GetQuery(sr) == IF ~PyTruthy(sr) THEN "continue" ELSE "run_query"

\* lines 139-143: the guard and structured_response["query"]
LoopDecision(sr) ==
  IF ~PyTruthy(sr) THEN "continue"
  ELSE IF sr.kind = "int" THEN "TypeError"
  ELSE IF "query" \notin sr.elems THEN "continue"
  ELSE IF sr.kind # "dict" THEN "TypeError"
  ELSE "run_query"

Rows == {[n |-> "a"]}

DbOutcomes == [raises : BOOLEAN, rows : SeqsUpTo(Rows, MaxRows)]

NoResults == [is_none |-> TRUE, rows |-> <<>>]

run_query_EmptyOnError(session) ==
  [is_none |-> FALSE, rows |-> IF session.raises THEN <<>> ELSE session.rows]

run_query(session) ==
  IF session.raises THEN NoResults ELSE [is_none |-> FALSE, rows |-> session.rows]

NoRender == [kind |-> "none", columns |-> {}, rows |-> 0]

display_results(res) ==
  IF res.is_none \/ res.rows = <<>>
    THEN [kind |-> "notice", columns |-> {}, rows |-> 0]
    ELSE [kind |-> "table", columns |-> DOMAIN res.rows[1], rows |-> Len(res.rows)]

\* `if results is not None: display_results(results)`
Render(res) == IF ~res.is_none THEN display_results(res) ELSE NoRender

LowerChar == [c \in {"E", "X", "I", "T"} |-> CASE c = "E" -> "e" [] c = "X" -> "x"
                                                [] c = "I" -> "i" [] c = "T" -> "t"]

lower(s) == [i \in 1..Len(s) |-> IF s[i] \in DOMAIN LowerChar THEN LowerChar[s[i]] ELSE s[i]]

Questions ==
  {<<"e", "x", "i", "t">>, <<"E", "X", "I", "T">>, <<"E", "x", "i", "t">>,
   <<"e", "x", "i", "t", " ">>, <<"w", "h", "o">>}

NoDb == [raises |-> FALSE, rows |-> <<>>]

QueryInit ==
  /\ qpc = "construct"
  /\ driver = "none"
  /\ db_connector = FALSE
  /\ asked = 0
  /\ question = <<>>
  /\ api = NoApi
  /\ translated = Returned(None)
  /\ db = NoDb
  /\ results = NoResults
  /\ rendered = NoRender
  /\ translate_calls = 0
  /\ run_query_calls = 0
  /\ pending = "none"
  /\ raised_in = "none"
  \* ingest.py is not running: nothing on disk, nothing accumulated
  /\ pc = "documents"
  /\ dir_entries = [is_dir |-> FALSE, entries |-> <<>>]
  /\ url_lines = [is_file |-> FALSE, lines |-> <<>>]
  /\ file_idx = 0
  /\ line_idx = 0
  /\ all_data = <<>>
  /\ origins = <<>>
  /\ calls = <<>>
  /\ output_file = <<>>
  /\ write_attempts = 0
  /\ write_error = FALSE
  /\ uncaught = "none"

\* Neo4jConnector.__init__, then GeminiQueryTranslator()
Construct ==
  /\ qpc = "construct"
  /\ \E c \in {"driver raises", "verify raises", "ok"} :
       CASE c = "driver raises" ->
              /\ UNCHANGED <<driver, db_connector>>
              /\ pending' = "Exception" /\ raised_in' = "construct" /\ qpc' = "except"
         [] c = "verify raises" ->
              /\ driver' = "open"
              /\ UNCHANGED db_connector
              /\ pending' = "Exception" /\ raised_in' = "construct" /\ qpc' = "except"
         [] c = "ok" ->
              /\ driver' = "open"
              /\ db_connector' = TRUE
              /\ UNCHANGED <<pending, raised_in>>
              /\ qpc' = "get_schema"
  /\ UNCHANGED <<asked, question, api, translated, db, results, rendered,
                 translate_calls, run_query_calls>>
  /\ UNCHANGED ivars

GetSchema ==
  /\ qpc = "get_schema"
  /\ \E raises \in BOOLEAN :
       IF raises
         THEN pending' = "Exception" /\ raised_in' = "get_schema" /\ qpc' = "except"
         ELSE UNCHANGED <<pending, raised_in>> /\ qpc' = "input"
  /\ UNCHANGED <<driver, db_connector, asked, question, api, translated, db,
                 results, rendered, translate_calls, run_query_calls>>
  /\ UNCHANGED ivars

\* console.input and the `exit` test
ReadQuestion ==
  /\ qpc = "input"
  /\ \E q \in Questions :
       /\ lower(q) # <<"e", "x", "i", "t">> => asked < MaxQuestions
       /\ question' = q
       /\ qpc' = IF lower(q) = <<"e", "x", "i", "t">> THEN "finally" ELSE "translate"
  /\ asked' = asked + 1
  /\ api' = NoApi
  /\ db' = NoDb
  /\ rendered' = NoRender
  /\ translate_calls' = 0
  /\ run_query_calls' = 0
  /\ UNCHANGED <<driver, db_connector, translated, results, pending, raised_in>>
  /\ UNCHANGED ivars

Translate ==
  /\ qpc = "translate"
  /\ \E a \in ApiOutcomes :
       /\ api' = a
       /\ translated' = translate(a)
       /\ IF translate(a).kind = "raise"
            THEN pending' = translate(a).exc /\ raised_in' = "translate" /\ qpc' = "except"
            ELSE UNCHANGED <<pending, raised_in>> /\ qpc' = "guard"
  /\ translate_calls' = translate_calls + 1
  /\ UNCHANGED <<driver, db_connector, asked, question, db, results, rendered,
                 run_query_calls>>
  /\ UNCHANGED ivars

Guard ==
  /\ qpc = "guard"
  /\ LET d == LoopDecision(translated.value)
     IN CASE d = "continue" -> qpc' = "input" /\ UNCHANGED <<pending, raised_in>>
          [] d = "run_query" -> qpc' = "run_query" /\ UNCHANGED <<pending, raised_in>>
          [] OTHER -> pending' = d /\ raised_in' = "guard" /\ qpc' = "except"
  /\ UNCHANGED <<driver, db_connector, asked, question, api, translated, db,
                 results, rendered, translate_calls, run_query_calls>>
  /\ UNCHANGED ivars

\* db_connector.run_query and the rendering that follows it
RunQuery ==
  /\ qpc = "run_query"
  /\ \E d \in DbOutcomes :
       /\ db' = d
       /\ results' = run_query(d)
       /\ rendered' = Render(run_query(d))
  /\ run_query_calls' = run_query_calls + 1
  /\ qpc' = "input"
  /\ UNCHANGED <<driver, db_connector, asked, question, api, translated,
                 translate_calls, pending, raised_in>>
  /\ UNCHANGED ivars

\* console.input raises EOFError: standard input was closed
InputClosed ==
  /\ qpc = "input"
  /\ pending' = "EOFError"
  /\ raised_in' = "input"
  /\ qpc' = "except"
  /\ UNCHANGED <<driver, db_connector, asked, question, api, translated, db,
                 results, rendered, translate_calls, run_query_calls>>
  /\ UNCHANGED ivars

\* Ctrl-C while blocked on the database, on input or on the POST
Interrupt ==
  /\ qpc \in {"get_schema", "input", "translate", "run_query"}
  /\ pending' = "KeyboardInterrupt"
  /\ raised_in' = qpc
  /\ qpc' = "finally"
  /\ UNCHANGED <<driver, db_connector, asked, question, api, translated, db,
                 results, rendered, translate_calls, run_query_calls>>
  /\ UNCHANGED ivars

\* `except (ValueError, Exception)`
Except ==
  /\ qpc = "except"
  /\ qpc' = "finally"
  /\ UNCHANGED <<driver, db_connector, asked, question, api, translated, db,
                 results, rendered, translate_calls, run_query_calls, pending, raised_in>>
  /\ UNCHANGED ivars

close(d) == "closed"

Finally ==
  /\ qpc = "finally"
  /\ driver' = IF db_connector THEN close(driver) ELSE driver
  /\ qpc' = "exit"
  /\ UNCHANGED <<db_connector, asked, question, api, translated, db, results,
                 rendered, translate_calls, run_query_calls, pending, raised_in>>
  /\ UNCHANGED ivars

vars == <<ivars, qvars>>

IngestNext ==
  \/ DocumentsDir
  \/ ProcessFile
  \/ FilesDone
  \/ UrlsFile
  \/ ProcessLine
  \/ LinesDone
  \/ WriteOutput

\* ingest.py runs alone: the query CLI stays in its initial state
IngestStart ==
  /\ IngestInit
  /\ qpc = "construct"
  /\ driver = "none"
  /\ db_connector = FALSE
  /\ asked = 0
  /\ question = <<>>
  /\ api = NoApi
  /\ translated = Returned(None)
  /\ db = NoDb
  /\ results = NoResults
  /\ rendered = NoRender
  /\ translate_calls = 0
  /\ run_query_calls = 0
  /\ pending = "none"
  /\ raised_in = "none"

IngestSpec == IngestStart /\ [][IngestNext]_vars

QueryNext ==
  \/ Construct
  \/ GetSchema
  \/ ReadQuestion
  \/ InputClosed
  \/ Translate
  \/ Guard
  \/ RunQuery
  \/ Interrupt
  \/ Except
  \/ Finally

QuerySpec == QueryInit /\ [][QueryNext]_vars

\* ------------------------------------------------------------ properties
Terminated == pc \in {"done", "aborted"}

FileCalls == SelectSeq(calls, LAMBDA c : c.fn # "extract_from_url")

UrlCalls == SelectSeq(calls, LAMBDA c : c.fn = "extract_from_url")

\* C1: every extractor call returns a string and never raises, whatever the
\* parser, the file read, the fetch or the HTML handling does (a page without
\* <body> included), and returns "" when any of them failed; no exception
\* leaves the ingestion run.
C1_ExtractorsNeverRaise ==
  /\ \A i \in 1..Len(calls) :
       /\ calls[i].result.kind = "return"
       /\ calls[i].failure => calls[i].result.value = <<>>
  /\ uncaught = "none"

HttpFailure(a) ==
  \/ a.post = "RequestException"
  \/ a.post = "response" /\ a.status \notin 200..299

\* C2: on an HTTP failure of the LLM call (the POST failed before a response
\* existed, or the response has a non-2xx status) translate returns None and
\* does not raise.
C2_TranslateNoneOnHttpFailure ==
  (translate_calls = 1 /\ HttpFailure(api)) => translated = Returned(None)

Parsed(a) ==
  /\ a.post = "response"
  /\ a.status \in 200..299
  /\ a.json
  /\ a.fail_at = 0
  /\ a.text = "str"

\* the response is JSON but a key or an item of the nested path is absent
PathAbsent(a) ==
  /\ a.post = "response" /\ a.status \in 200..299 /\ a.json
  /\ \/ a.fail_at \in {1, 3, 4, 6} /\ a.container = "dict"
     \/ a.fail_at \in {2, 5} /\ a.container = "list"

\* the response body, or the generated text (a string), is not valid JSON
NotJson(a) ==
  /\ a.post = "response" /\ a.status \in 200..299
  /\ ~a.json \/ (a.fail_at = 0 /\ a.text = "invalid json")

\* the generated text is a JSON object without a "query" field
ObjectLacksQuery(a) == Parsed(a) /\ a.value.kind = "dict" /\ "query" \notin a.value.elems

\* C3 as stated: translate returns None when the generated object lacks
\* "query", when the nested path is missing and when the body or the text
\* is not valid JSON; it never returns a non-null object without "query".
C3_NeverObjectWithoutQuery ==
  translate_calls = 1 =>
    /\ (PathAbsent(api) \/ NotJson(api) \/ ObjectLacksQuery(api)) => translated = Returned(None)
    /\ (translated.kind = "return" /\ translated.value # None)
         => "query" \in translated.value.elems

\* C3 amended: translate returns None when a key or item of the nested path
\* is absent and when the body or the generated text is not valid JSON; a
\* generated object without "query" is returned as it is, and it is the
\* loop's guard that rejects it, so that no query runs for that question.
C3_ObjectWithoutQueryRejectedByLoop ==
  translate_calls = 1 =>
    /\ (PathAbsent(api) \/ NotJson(api)) => translated = Returned(None)
    /\ ObjectLacksQuery(api) =>
         /\ translated = Returned(api.value)
         /\ translated.value # None
         /\ run_query_calls = 0
         /\ qpc # "run_query"
         /\ raised_in \notin {"translate", "guard"}

C3_Witness ==
  /\ translate_calls = 1
  /\ ObjectLacksQuery(api)
  /\ translated.value.elems = {"explanation"}
  /\ qpc = "input"

\* C4: run_query returns None when executing the query throws and an empty
\* list when it succeeds with no rows, and never raises for an execution
\* error; in the loop None renders nothing and the empty list reaches
\* display_results, which prints the no-results notice.
C4_NoneVersusEmpty ==
  run_query_calls = 1 =>
    /\ db.raises => results.is_none /\ rendered.kind = "none"
    /\ (~db.raises /\ db.rows = <<>>) =>
         /\ ~results.is_none
         /\ results.rows = <<>>
         /\ rendered.kind = "notice"
    /\ (~db.raises /\ db.rows # <<>>) => rendered.kind = "table"
    /\ raised_in = "run_query" => pending = "KeyboardInterrupt"

C4_Witness ==
  /\ run_query_calls = 1
  /\ db.raises
  /\ results.is_none
  /\ qpc = "input"

\* C5: a failure in translation or in query execution never ends the loop:
\* no exception raised by translate, by the guard on its result or by
\* run_query leaves the loop, which ends only on the input `exit`.
C5_FailureNeverEndsLoop ==
  raised_in \in {"translate", "guard", "run_query"} => pending = "KeyboardInterrupt"

\* C6: on every exit path the program ends with the driver, once opened,
\* closed.
C6_DriverReleasedAtExit == qpc = "exit" => driver # "open"

\* C7: run_query is called only if the response parsed and held a "query"
\* field; when translate returned None or an object without "query" no query
\* runs in that iteration; at most one translate call and one run_query call
\* happen per question.
C7_QueryOnlyAfterParsedQuery ==
  /\ translate_calls <= 1
  /\ run_query_calls <= 1
  /\ run_query_calls <= translate_calls
  /\ (qpc = "run_query" \/ run_query_calls = 1) =>
       /\ Parsed(api)
       /\ translated = Returned(api.value)
       /\ api.value.kind = "dict"
       /\ "query" \in api.value.elems

C7_Witness ==
  /\ translate_calls = 1
  /\ translated = Returned(None)
  /\ HttpFailure(api)
  /\ run_query_calls = 0
  /\ qpc = "input"

\* C8: at every point of the run every record has non-empty content and
\* comes from an item of its own; an item whose extraction returned "" and
\* a file with another suffix than .pdf/.docx/.txt have no record; the
\* written output is the accumulated sequence.
C8_OnlyNonEmptyRecords ==
  /\ \A i \in 1..Len(all_data) : all_data[i].content # <<>>
  /\ Len(origins) = Len(all_data)
  /\ \A i, j \in 1..Len(origins) : origins[i] = origins[j] => i = j
  /\ \A i \in 1..Len(calls) :
       calls[i].result.value = <<>> => calls[i].item \notin Range(origins)
  /\ \A k \in 1..file_idx :
       LET n == dir_entries.entries[k]
       IN (Len(n) < 3 \/ SubSeq(n, Len(n) - 1, Len(n)) \notin
             {<<".", "pdf">>, <<".", "docx">>, <<".", "txt">>})
            => <<"file", k>> \notin Range(origins)
  /\ output_file # <<>> =>
       /\ output_file[1] = all_data
       /\ \A i \in 1..Len(output_file[1]) : output_file[1][i].content # <<>>

C8_Witness ==
  /\ pc = "done"
  /\ output_file # <<>>
  /\ Len(all_data) = 1
  /\ \E i \in 1..Len(calls) : calls[i].result.value = <<>>
  /\ \E k \in 1..file_idx : <<"file", k>> \notin {calls[i].item : i \in 1..Len(calls)}

\* C9: a run that accumulated no record writes no output file; a run that
\* accumulated at least one record writes the output file exactly once,
\* after all items were processed; a failed write is caught, not raised.
C9_OutputWrittenOnce ==
  /\ write_attempts <= 1
  /\ write_attempts = 1 => pc = "done"
  /\ write_error => pc = "done" /\ uncaught = "none"
  /\ Terminated =>
       /\ all_data = <<>> => (write_attempts = 0 /\ output_file = <<>>)
       /\ all_data # <<>> => write_attempts = 1

Stripped(k) == strip(url_lines.lines[k])

\* the lines, among the first n, whose trimmed text is a target
RECURSIVE TargetLines(_)
TargetLines(n) ==
  IF n = 0 THEN <<>>
  ELSE IF Stripped(n) # <<>> /\ Stripped(n)[1] # "#"
         THEN Append(TargetLines(n - 1), n)
         ELSE TargetLines(n - 1)

====
